---- MODULE Spec2Model ----
(***************************************************************************)
(* Model of dumpqlite-rs: ConnectionExt::dump for rusqlite::Connection     *)
(* (src/src/lib.rs).  dump writes a SQL script for the database behind a   *)
(* connection to a sink, one line per writeln!.                            *)
(*                                                                         *)
(* Text is modelled as a sequence of one-character strings, so that the    *)
(* literal formatting, the LIKE pattern of the catalog query and the       *)
(* parsing of the script are computed character by character.              *)
(***************************************************************************)
EXTENDS Integers, Sequences, FiniteSets, TLC

(***************************************************************************)
(* Bounds                                                                  *)
(***************************************************************************)
\* injected driver / sink failures per run
MaxFaults == 1
\* commits of the concurrent writer per run
MaxWrites == 1

(***************************************************************************)
(* Characters and strings                                                  *)
(***************************************************************************)
Digits == <<"0", "1", "2", "3", "4", "5", "6", "7", "8", "9">>

Quote == "'"

\* a byte that is not valid UTF-8, and U+FFFD which from_utf8_lossy puts for it
BadByte == "<ff>"
Replacement == "<fffd>"

RECURSIVE NatToString(_)
NatToString(n) ==
    IF n < 10 THEN <<Digits[n + 1]>>
    ELSE NatToString(n \div 10) \o <<Digits[(n % 10) + 1]>>

\* i64::to_string: decimal digits, a sign only if negative
IntToString(i) ==
    IF i < 0 THEN <<"-">> \o NatToString(0 - i) ELSE NatToString(i)

\* f64::to_string (Display) for the reals num/10: the shortest decimal text,
\* and no fractional part at all for an integral value (2.0 is "2")
RealToString(num) ==
    LET mag == IF num < 0 THEN 0 - num ELSE num
        sign == IF num < 0 THEN <<"-">> ELSE <<>>
    IN  IF mag % 10 = 0
        THEN sign \o NatToString(mag \div 10)
        ELSE sign \o NatToString(mag \div 10) \o <<".">> \o <<Digits[(mag % 10) + 1]>>

\* String::from_utf8_lossy: invalid sequences are replaced, never an error
FromUtf8Lossy(t) ==
    [i \in DOMAIN t |-> IF t[i] = BadByte THEN Replacement ELSE t[i]]

\* ASCII case folding of SQLite's LIKE
Lower(c) ==
    CASE c = "S" -> "s" [] c = "Q" -> "q" [] c = "L" -> "l"
      [] c = "I" -> "i" [] c = "T" -> "t" [] c = "E" -> "e"
      [] c = "X" -> "x" [] OTHER -> c

\* SQLite's LIKE operator: % matches any run of characters, _ matches any one
\* character, other characters match case-insensitively
RECURSIVE Like(_, _)
Like(s, p) ==
    IF p = <<>> THEN s = <<>>
    ELSE IF Head(p) = "%"
         THEN \E k \in 0..Len(s) : Like(SubSeq(s, k + 1, Len(s)), Tail(p))
         ELSE /\ s # <<>>
              /\ \/ Head(p) = "_"
                 \/ Lower(Head(p)) = Lower(Head(s))
              /\ Like(Tail(s), Tail(p))

\* the pattern of the catalog query: 'sqlite_%'
InternalPattern == <<"s", "q", "l", "i", "t", "e", "_", "%">>

\* Vec<String>::join
RECURSIVE Join(_, _)
Join(strs, sep) ==
    IF strs = <<>> THEN <<>>
    ELSE IF Len(strs) = 1 THEN strs[1]
    ELSE strs[1] \o sep \o Join(Tail(strs), sep)

(***************************************************************************)
(* Values (rusqlite::types::ValueRef) and their literals                   *)
(***************************************************************************)
Null == [tag |-> "Null"]
Integer(i) == [tag |-> "Integer", i |-> i]
\* the real number num/10
Real(num) == [tag |-> "Real", num |-> num]
Text(t) == [tag |-> "Text", t |-> t]
Blob(b) == [tag |-> "Blob", b |-> b]

\* what the Blob arm evaluates to: todo!() panics and yields no string
Panic == <<"todo!()">>

\* the match on ValueRef in the row closure
Literal(value) ==
    CASE value.tag = "Null" -> <<"N", "U", "L", "L">>
      [] value.tag = "Integer" -> IntToString(value.i)
      [] value.tag = "Real" -> RealToString(value.num)
      [] value.tag = "Text" -> <<Quote>> \o FromUtf8Lossy(value.t) \o <<Quote>>
      [] value.tag = "Blob" -> Panic

(***************************************************************************)
(* The database behind the connection                                      *)
(*                                                                         *)
(* catalog : the rows of sqlite_schema, in catalog order, each with the    *)
(*           columns PRAGMA table_info reports for it                      *)
(* rows    : per table, its stored rows in scan order (one value per       *)
(*           column, of any kind: typing is per value); the rows of        *)
(*           sqlite_sequence are its (name, seq) records                   *)
(***************************************************************************)
Str_users == <<"u", "s", "e", "r", "s">>
Str_tasks == <<"t", "a", "s", "k", "s">>
Str_t == <<"t">>
Str_old == <<"o", "l", "d">>
Str_sqlitex == <<"s", "q", "l", "i", "t", "e", "x">>
Str_SQLiteX == <<"S", "Q", "L", "i", "t", "e", "X">>
Str_sqlite_sequence ==
    <<"s", "q", "l", "i", "t", "e", "_", "s", "e", "q", "u", "e", "n", "c", "e">>
Str_sqlite_stat1 == <<"s", "q", "l", "i", "t", "e", "_", "s", "t", "a", "t", "1">>

\* a NULL in the sql column of sqlite_schema
NullSql == "<NULL>"

TableEntry(name, sql, columns, autoinc) ==
    [type |-> "table", name |-> name, sql |-> sql, columns |-> columns,
     autoinc |-> autoinc]
IndexEntry(name, sql) ==
    [type |-> "index", name |-> name, sql |-> sql, columns |-> <<>>,
     autoinc |-> FALSE]

SequenceEntry ==
    TableEntry(Str_sqlite_sequence, "CREATE TABLE sqlite_sequence(name,seq)",
               <<"name", "seq">>, FALSE)
SeqRecord(name, n) == <<Text(name), Integer(n)>>

HasTable(d, name) == \E k \in DOMAIN d.catalog :
    d.catalog[k].type = "table" /\ d.catalog[k].name = name
EntryOf(d, name) == d.catalog[CHOOSE k \in DOMAIN d.catalog :
    d.catalog[k].type = "table" /\ d.catalog[k].name = name]

\* the database of tests::test_dump, with shorter texts
DbTest ==
    [catalog |-> << TableEntry(Str_users, "CREATE TABLE users (id, username)",
                               <<"id", "username">>, TRUE),
                    SequenceEntry,
                    TableEntry(Str_tasks, "CREATE TABLE tasks (id, title)",
                               <<"id", "title">>, TRUE) >>,
     rows |-> (Str_users :> << <<Integer(1), Text(<<"a", "l">>)>>,
                               <<Integer(2), Text(<<"b", "o">>)>> >>)
           @@ (Str_tasks :> << <<Integer(1), Null>> >>)
           @@ (Str_sqlite_sequence :>
                 << SeqRecord(Str_users, 2), SeqRecord(Str_tasks, 1) >>)]

\* one table t(a) that never used autoincrement, holding the one value v
DbOneValue(v) ==
    [catalog |-> << TableEntry(Str_t, "CREATE TABLE t (a)", <<"a">>, FALSE) >>,
     rows |-> (Str_t :> << <<v>> >>)]

\* one autoincrement table t(id, a) holding the row (1, v)
DbAutoValue(v) ==
    [catalog |-> << TableEntry(Str_t, "CREATE TABLE t (id, a)", <<"id", "a">>, TRUE),
                    SequenceEntry >>,
     rows |-> (Str_t :> << <<Integer(1), v>> >>)
           @@ (Str_sqlite_sequence :> << SeqRecord(Str_t, 1) >>)]

\* user tables named sqlitex and SQLiteX, an automatic index (NULL sql), a
\* created index, and the internal table sqlite_stat1
DbNames ==
    [catalog |-> << TableEntry(Str_sqlitex, "CREATE TABLE sqlitex (a)", <<"a">>, FALSE),
                    IndexEntry(<<"a", "i">>, NullSql),
                    TableEntry(Str_users, "CREATE TABLE users (id, username)",
                               <<"id", "username">>, TRUE),
                    SequenceEntry,
                    IndexEntry(<<"i", "x">>, "CREATE INDEX ix ON users (username)"),
                    TableEntry(Str_SQLiteX, "CREATE TABLE SQLiteX (a)", <<"a">>, FALSE),
                    TableEntry(Str_sqlite_stat1, "CREATE TABLE sqlite_stat1(tbl,idx,stat)",
                               <<"tbl", "idx", "stat">>, FALSE) >>,
     rows |-> (Str_sqlitex :> << <<Integer(7)>> >>)
           @@ (Str_users :> << <<Integer(1), Text(<<"a", "l">>)>> >>)
           @@ (Str_SQLiteX :> <<>>)
           @@ (Str_sqlite_stat1 :> <<>>)
           @@ (Str_sqlite_sequence :> << SeqRecord(Str_users, 1) >>)]

\* sqlite_sequence is an ordinary table: a row left by a dropped table, one
\* with a NULL name and one whose seq was set to a text
DbOddSequence ==
    [catalog |-> << TableEntry(Str_users, "CREATE TABLE users (id, username)",
                               <<"id", "username">>, TRUE),
                    SequenceEntry >>,
     rows |-> (Str_users :> << <<Integer(1), Text(<<"a", "l">>)>> >>)
           @@ (Str_sqlite_sequence :>
                 << SeqRecord(Str_old, 12),
                    <<Null, Integer(3)>>,
                    SeqRecord(Str_users, 1),
                    <<Text(Str_old), Text(<<"x">>)>> >>)]

\* no table at all
DbEmpty == [catalog |-> <<>>, rows |-> <<>>]

Values ==
    { Null, Integer(0), Integer(-12), Real(15), Real(20), Real(-5),
      Text(<<>>), Text(<<"a", ",", "b">>), Text(<<"O", Quote, "B">>),
      Text(<<"a", BadByte>>), Blob(<<0, 39, 255>>), Blob(<<>>) }

Databases ==
    {DbTest, DbNames, DbOddSequence, DbEmpty, DbOneValue(Integer(0))}
    \cup {DbAutoValue(v) : v \in Values}

(***************************************************************************)
(* The lines dump writes, one per writeln!                                 *)
(***************************************************************************)
PragmaLine == [stmt |-> "PRAGMA foreign_keys=OFF;"]
BeginLine == [stmt |-> "BEGIN TRANSACTION;"]
\* "{create_sql};"
CreateLine(sql) == [stmt |-> "CREATE", sql |-> sql]
\* "INSERT INTO {table_name} VALUES({values});"
InsertLine(name, vals) == [stmt |-> "INSERT INTO", table |-> name, values |-> vals]
DeleteLine == [stmt |-> "DELETE FROM sqlite_sequence;"]
\* "INSERT INTO sqlite_sequence VALUES({values});"
SequenceLine(vals) == [stmt |-> "INSERT INTO sqlite_sequence", values |-> vals]
CommitLine == [stmt |-> "COMMIT;"]

(***************************************************************************)
(* State                                                                   *)
(***************************************************************************)
VARIABLES
    db,            \* the database file, as last committed
    hist,          \* every state the database was in since dump was called
    writes,        \* commits made by the concurrent writer
    txn,           \* the connection has a read transaction open
    snap,          \* the state that read transaction sees
    pc,            \* position of dump; "ok", "err" and "panicked" are final
    out,           \* the lines written to the sink
    faults,        \* failures injected by the driver or the sink
    failed,        \* Err results dump received, of any step
    catpos,        \* the catalog cursor `tables`: next catalog row to examine
    table_name,    \* loop variables of the table loop
    create_sql,
    columns,       \* column names table_info gave
    column_count,
    rowpos,        \* the row cursor: next row of the table
    seqpos,        \* the sqlite_sequence cursor: next row
    last           \* the row closure's last evaluation

vars == <<db, hist, writes, txn, snap, pc, out, faults, failed, catpos,
          table_name, create_sql, columns, column_count, rowpos, seqpos, last>>

env == <<db, hist, writes>>
cursors == <<catpos, rowpos, seqpos>>
locals == <<table_name, create_sql, columns, column_count>>

NoRow == [table |-> <<>>, got |-> <<>>, lits |-> <<>>, written |-> FALSE]

\* what a statement stepped now reads: the open read transaction's snapshot,
\* or the committed state when the connection has no statement in progress
View == IF txn THEN snap ELSE db

CanFault == faults < MaxFaults

Init ==
    /\ db \in Databases
    /\ hist = {db}
    /\ writes = 0
    /\ txn = FALSE
    /\ snap = db
    /\ pc = "pragma"
    /\ out = <<>>
    /\ faults = 0
    /\ failed = 0
    /\ catpos = 1
    /\ table_name = <<>>
    /\ create_sql = ""
    /\ columns = <<>>
    /\ column_count = 0
    /\ rowpos = 1
    /\ seqpos = 1
    /\ last = NoRow

\* a step that fails with an error `?` propagates: dump returns Err
Fail ==
    /\ CanFault
    /\ pc' = "err"
    /\ faults' = faults + 1
    /\ failed' = failed + 1

\* writeln!(writer, ...)?: the line is appended, or the sink fails
Writeln(line, next) ==
    \/ /\ out' = Append(out, line)
       /\ pc' = next
       /\ UNCHANGED <<faults, failed>>
    \/ /\ Fail
       /\ UNCHANGED out

WritePragma ==
    /\ pc = "pragma"
    /\ Writeln(PragmaLine, "begin")
    /\ UNCHANGED <<env, txn, snap, cursors, locals, last>>

WriteBegin ==
    /\ pc = "begin"
    /\ Writeln(BeginLine, "prepare_tables")
    /\ UNCHANGED <<env, txn, snap, cursors, locals, last>>

\* the WHERE clause of the catalog query
Where(e) ==
    /\ e.sql # NullSql
    /\ e.type = "table"
    /\ ~ Like(e.name, InternalPattern)

\* prepare and query_map of the catalog query; no row is stepped yet, the
\* iterator `tables` is lazy
PrepareTables ==
    /\ pc = "prepare_tables"
    /\ \/ /\ pc' = "tables"
          /\ catpos' = 1
          /\ UNCHANGED <<faults, failed>>
       \/ /\ Fail
          /\ UNCHANGED catpos
    /\ UNCHANGED <<env, txn, snap, out, rowpos, seqpos, locals, last>>

\* first catalog row at or after position from that satisfies the WHERE
\* clause, 0 when there is none; a cursor at 0 is a statement that was reset
NextMatch(cat, from) ==
    LET S == {k \in from..Len(cat) : from > 0 /\ Where(cat[k])}
    IN  IF S = {} THEN 0 ELSE CHOOSE k \in S : \A j \in S : k <= j

\* one turn of `for (table_name, create_sql) in tables`: the catalog
\* statement is stepped.  Its first step opens the connection's read
\* transaction, which stays open while the statement is in progress; the
\* statement is reset when it is done or when a step fails.  A failed row
\* (a step error, or row.get failing in the closure) is an Err item that
\* filter_map(Result::ok) drops.
FetchTable ==
    /\ pc = "tables"
    /\ LET v == View
           k == NextMatch(v.catalog, catpos)
       IN  IF k = 0
           THEN /\ txn' = FALSE
                /\ catpos' = 0
                /\ pc' = "write_delete"
                /\ UNCHANGED <<snap, faults, failed, table_name, create_sql>>
           ELSE \/ /\ txn' = TRUE
                   /\ snap' = v
                   /\ catpos' = k + 1
                   /\ table_name' = v.catalog[k].name
                   /\ create_sql' = v.catalog[k].sql
                   /\ pc' = "write_create"
                   /\ UNCHANGED <<faults, failed>>
                \/ /\ CanFault
                   /\ txn' = TRUE
                   /\ snap' = v
                   /\ catpos' = k + 1
                   /\ faults' = faults + 1
                   /\ failed' = failed + 1
                   /\ UNCHANGED <<pc, table_name, create_sql>>
                \/ /\ CanFault
                   /\ txn' = FALSE
                   /\ catpos' = 0
                   /\ faults' = faults + 1
                   /\ failed' = failed + 1
                   /\ UNCHANGED <<pc, snap, table_name, create_sql>>
    /\ UNCHANGED <<env, out, rowpos, seqpos, columns, column_count, last>>

WriteCreate ==
    /\ pc = "write_create"
    /\ Writeln(CreateLine(create_sql), "table_info")
    /\ UNCHANGED <<env, txn, snap, cursors, locals, last>>

\* the rows a query_map(...).filter_map(Result::ok) that is collected at once
\* can keep of n rows: rows whose closure failed are dropped, and a failed
\* step ends the scan (at row k).  budget bounds the failures.
ScanOutcomes(n, budget) ==
    { o \in UNION { { [kept |-> (1..(k - 1)) \ F,
                       failures |-> Cardinality(F) + (IF k <= n THEN 1 ELSE 0)] :
                       F \in SUBSET (1..(k - 1)) } : k \in 1..(n + 1) } :
        o.failures <= budget }

RECURSIVE KeepFrom(_, _, _)
KeepFrom(s, kept, i) ==
    IF i > Len(s) THEN <<>>
    ELSE (IF i \in kept THEN <<s[i]>> ELSE <<>>) \o KeepFrom(s, kept, i + 1)

\* the elements of s at the positions in kept, in order
Keep(s, kept) == KeepFrom(s, kept, 1)

\* the block computing (columns, column_count): PRAGMA table_info({table_name})
\* is prepared and all its rows collected; a row that fails is dropped
TableInfo ==
    /\ pc = "table_info"
    /\ \/ LET cols == EntryOf(View, table_name).columns
          IN  \E o \in ScanOutcomes(Len(cols), MaxFaults - faults) :
                /\ columns' = Keep(cols, o.kept)
                /\ column_count' = Cardinality(o.kept)
                /\ faults' = faults + o.failures
                /\ failed' = failed + o.failures
                /\ pc' = "prepare_rows"
       \/ /\ Fail
          /\ UNCHANGED <<columns, column_count>>
    /\ UNCHANGED <<env, txn, snap, out, cursors, table_name, create_sql, last>>

\* prepare and query_map of "SELECT {columns} FROM {table_name};".  With no
\* column name the statement is "SELECT  FROM t;", which does not parse.
PrepareRows ==
    /\ pc = "prepare_rows"
    /\ IF columns = <<>>
       THEN /\ pc' = "err"
            /\ failed' = failed + 1
            /\ UNCHANGED <<faults, rowpos>>
       ELSE \/ /\ pc' = "rows"
               /\ rowpos' = 1
               /\ UNCHANGED <<faults, failed>>
            \/ /\ Fail
               /\ UNCHANGED rowpos
    /\ UNCHANGED <<env, txn, snap, out, catpos, seqpos, locals, last>>

\* position of column name c in the table's column list
ColumnIndex(cols, c) == CHOOSE i \in DOMAIN cols : cols[i] = c

\* the row the SELECT yields for stored row r
Selected(cols, r) == [k \in DOMAIN columns |-> r[ColumnIndex(cols, columns[k])]]

\* one row of the row scan: the statement is stepped, the closure reads
\* column_count values with get_ref (a failed read is dropped by
\* filter_map(Result::ok)), turns each into its literal and joins them; the
\* Ok item is written as an INSERT line.  A failed step is an Err item, which
\* the outer filter_map(Result::ok) drops; the statement is then reset.
FetchRow ==
    /\ pc = "rows"
    /\ LET rs == IF rowpos = 0 THEN <<>> ELSE View.rows[table_name]
       IN  IF rowpos = 0 \/ rowpos > Len(rs)
           THEN /\ pc' = "tables"
                /\ rowpos' = 0
                /\ UNCHANGED <<out, faults, failed, last>>
           ELSE \/ LET r == Selected(EntryOf(View, table_name).columns, rs[rowpos])
                   IN  \E G \in SUBSET (1..column_count) :
                         LET got == Keep(r, (1..column_count) \ G)
                             lits == [i \in DOMAIN got |-> Literal(got[i])]
                             n == Cardinality(G)
                         IN  /\ faults + n <= MaxFaults
                             /\ IF \E i \in DOMAIN lits : lits[i] = Panic
                                THEN /\ pc' = "panicked"
                                     /\ faults' = faults + n
                                     /\ failed' = failed + n
                                     /\ last' = [table |-> table_name, got |-> got,
                                                 lits |-> lits, written |-> FALSE]
                                     /\ UNCHANGED <<out, rowpos>>
                                ELSE \/ /\ out' = Append(out,
                                              InsertLine(table_name, Join(lits, <<",">>)))
                                        /\ rowpos' = rowpos + 1
                                        /\ faults' = faults + n
                                        /\ failed' = failed + n
                                        /\ last' = [table |-> table_name, got |-> got,
                                                    lits |-> lits, written |-> TRUE]
                                        /\ UNCHANGED pc
                                     \/ /\ faults + n < MaxFaults
                                        /\ pc' = "err"
                                        /\ faults' = faults + n + 1
                                        /\ failed' = failed + n + 1
                                        /\ last' = [table |-> table_name, got |-> got,
                                                    lits |-> lits, written |-> FALSE]
                                        /\ UNCHANGED <<out, rowpos>>
                \/ /\ CanFault
                   /\ rowpos' = 0
                   /\ faults' = faults + 1
                   /\ failed' = failed + 1
                   /\ UNCHANGED <<pc, out, last>>
    /\ UNCHANGED <<env, txn, snap, catpos, seqpos, locals>>

\* WriteDelete with the DELETE line forgotten
WriteDeleteOmitted ==
    /\ pc = "write_delete"
    /\ \/ /\ pc' = "prepare_sequence"
          /\ UNCHANGED <<out, faults, failed>>
       \/ /\ Fail
          /\ UNCHANGED out
    /\ UNCHANGED <<env, txn, snap, cursors, locals, last>>

\* writeln!(writer, "DELETE FROM sqlite_sequence;")?
WriteDelete ==
    /\ pc = "write_delete"
    /\ Writeln(DeleteLine, "prepare_sequence")
    /\ UNCHANGED <<env, txn, snap, cursors, locals, last>>

\* prepare and query_map of "SELECT name, seq FROM sqlite_sequence;": the
\* statement cannot be prepared when the database has no such table
PrepareSequence ==
    /\ pc = "prepare_sequence"
    /\ IF ~ HasTable(View, Str_sqlite_sequence)
       THEN /\ pc' = "err"
            /\ failed' = failed + 1
            /\ UNCHANGED <<faults, seqpos>>
       ELSE \/ /\ pc' = "sequence"
               /\ seqpos' = 1
               /\ UNCHANGED <<faults, failed>>
            \/ /\ Fail
               /\ UNCHANGED seqpos
    /\ UNCHANGED <<env, txn, snap, out, catpos, rowpos, locals, last>>

\* Result<T, rusqlite::Error>
Ok(x) == [ok |-> TRUE, value |-> x]
Err == [ok |-> FALSE]

\* row.get::<_, String>: a Text that is valid UTF-8, anything else is an error
StringFromSql(value) ==
    IF value.tag = "Text" /\ \A i \in DOMAIN value.t : value.t[i] # BadByte
    THEN Ok(value.t) ELSE Err

\* row.get::<_, i64>: an Integer, anything else is an error
I64FromSql(value) == IF value.tag = "Integer" THEN Ok(value.i) ELSE Err

\* format!("'{name}',{seq}")
SequenceValues(name, seq) == <<Quote>> \o name \o <<Quote, ",">> \o IntToString(seq)

\* one row of the sqlite_sequence scan.  The statement's first step opens a
\* read transaction (the catalog statement is done by then).  A row whose
\* step or whose row.get fails is an Err item, dropped by
\* filter_map(Result::ok); an Ok item is written as an INSERT line.
FetchSequence ==
    /\ pc = "sequence"
    /\ LET v == View
           rs == IF seqpos = 0 THEN <<>> ELSE v.rows[Str_sqlite_sequence]
       IN  IF seqpos = 0 \/ seqpos > Len(rs)
           THEN /\ txn' = FALSE
                /\ seqpos' = 0
                /\ pc' = "write_commit"
                /\ UNCHANGED <<snap, out, faults, failed>>
           ELSE LET name == StringFromSql(rs[seqpos][1])
                    seq == I64FromSql(rs[seqpos][2])
                IN  \/ /\ txn' = TRUE
                       /\ snap' = v
                       /\ IF ~ name.ok \/ ~ seq.ok
                          THEN /\ seqpos' = seqpos + 1
                               /\ failed' = failed + 1
                               /\ UNCHANGED <<pc, out, faults>>
                          ELSE \/ /\ out' = Append(out,
                                        SequenceLine(SequenceValues(name.value, seq.value)))
                                  /\ seqpos' = seqpos + 1
                                  /\ UNCHANGED <<pc, faults, failed>>
                               \/ /\ Fail
                                  /\ UNCHANGED <<out, seqpos>>
                               \/ /\ CanFault
                                  /\ seqpos' = seqpos + 1
                                  /\ faults' = faults + 1
                                  /\ failed' = failed + 1
                                  /\ UNCHANGED <<pc, out>>
                    \/ /\ CanFault
                       /\ txn' = FALSE
                       /\ seqpos' = 0
                       /\ faults' = faults + 1
                       /\ failed' = failed + 1
                       /\ UNCHANGED <<pc, snap, out>>
    /\ UNCHANGED <<env, catpos, rowpos, locals, last>>

\* writeln!(writer, "COMMIT;")?; Ok(())
WriteCommit ==
    /\ pc = "write_commit"
    /\ Writeln(CommitLine, "ok")
    /\ UNCHANGED <<env, txn, snap, cursors, locals, last>>

Running == pc \notin {"ok", "err", "panicked"}

(***************************************************************************)
(* A writer on another connection.  It commits one INSERT into a user      *)
(* table at a time; an insert into an AUTOINCREMENT table updates the      *)
(* table's sqlite_sequence record in the same commit.                      *)
(***************************************************************************)
SequenceOf(d, name) ==
    LET rs == d.rows[Str_sqlite_sequence]
        S == {k \in DOMAIN rs : rs[k][1] = Text(name) /\ rs[k][2].tag = "Integer"}
    IN  IF S = {} THEN 0 ELSE CHOOSE k \in S : \A j \in S : k <= j

NextRowId(d, e) ==
    IF e.autoinc /\ SequenceOf(d, e.name) # 0
    THEN d.rows[Str_sqlite_sequence][SequenceOf(d, e.name)][2].i + 1
    ELSE Len(d.rows[e.name]) + 1

Inserted(d, e) ==
    LET id == NextRowId(d, e)
        r == [k \in DOMAIN e.columns |-> IF k = 1 THEN Integer(id) ELSE Null]
        k == SequenceOf(d, e.name)
    IN  [name \in DOMAIN d.rows |->
            IF name = e.name THEN Append(d.rows[name], r)
            ELSE IF name = Str_sqlite_sequence /\ e.autoinc
                 THEN IF k = 0 THEN Append(d.rows[name], SeqRecord(e.name, id))
                      ELSE [d.rows[name] EXCEPT ![k] = SeqRecord(e.name, id)]
                 ELSE d.rows[name]]

Writer ==
    /\ Running
    /\ writes < MaxWrites
    /\ \E k \in DOMAIN db.catalog :
         /\ db.catalog[k].type = "table"
         /\ db.catalog[k].name \notin {Str_sqlite_sequence, Str_sqlite_stat1}
         /\ db' = [db EXCEPT !.rows = Inserted(db, db.catalog[k])]
    /\ hist' = hist \cup {db'}
    /\ writes' = writes + 1
    /\ UNCHANGED <<txn, snap, pc, out, faults, failed, cursors, locals, last>>

Next ==
    \/ WritePragma
    \/ WriteBegin
    \/ PrepareTables
    \/ FetchTable
    \/ WriteCreate
    \/ TableInfo
    \/ PrepareRows
    \/ FetchRow
    \/ WriteDelete
    \/ PrepareSequence
    \/ FetchSequence
    \/ WriteCommit
    \/ Writer

Spec == Init /\ [][Next]_vars

(***************************************************************************)
(* Replaying a script: the engine parses each line and executes it         *)
(* against an empty database.                                              *)
(***************************************************************************)
HexDigits == <<"0", "1", "2", "3", "4", "5", "6", "7", "8", "9",
               "a", "b", "c", "d", "e", "f">>

IsDigit(c) == \E d \in DOMAIN Digits : Digits[d] = c
DigitValue(c) == (CHOOSE d \in DOMAIN Digits : Digits[d] = c) - 1
IsHexDigit(c) == \E d \in DOMAIN HexDigits : HexDigits[d] = Lower(c)
HexValue(c) == (CHOOSE d \in DOMAIN HexDigits : HexDigits[d] = Lower(c)) - 1

\* a parse result: the value read and the position after it
Parsed(value, next) == [ok |-> TRUE, value |-> value, next |-> next]
NoParse == [ok |-> FALSE]

\* the body of a string literal from position i on: '' is one quote, a
\* single ' ends the literal
RECURSIVE ScanText(_, _, _)
ScanText(s, i, acc) ==
    IF i > Len(s) THEN NoParse
    ELSE IF s[i] = Quote
         THEN IF i + 1 <= Len(s) /\ s[i + 1] = Quote
              THEN ScanText(s, i + 2, Append(acc, Quote))
              ELSE Parsed(Text(acc), i + 1)
         ELSE ScanText(s, i + 1, Append(acc, s[i]))

\* the hex digits of a blob literal from position i on, up to the closing '
RECURSIVE ScanBlob(_, _, _)
ScanBlob(s, i, acc) ==
    IF i > Len(s) THEN NoParse
    ELSE IF s[i] = Quote THEN Parsed(Blob(acc), i + 1)
    ELSE IF i + 1 <= Len(s) /\ IsHexDigit(s[i]) /\ IsHexDigit(s[i + 1])
         THEN ScanBlob(s, i + 2, Append(acc, 16 * HexValue(s[i]) + HexValue(s[i + 1])))
         ELSE NoParse

\* a run of digits from position i on: its value and the position after it
RECURSIVE ScanDigits(_, _, _)
ScanDigits(s, i, acc) ==
    IF i <= Len(s) /\ IsDigit(s[i])
    THEN ScanDigits(s, i + 1, 10 * acc + DigitValue(s[i]))
    ELSE [value |-> acc, next |-> i]

\* a numeric literal: digits are an Integer, digits '.' digit a Real
ScanNumber(s, i) ==
    LET neg == i <= Len(s) /\ s[i] = "-"
        j == IF neg THEN i + 1 ELSE i
        whole == ScanDigits(s, j, 0)
        signed(x) == IF neg THEN 0 - x ELSE x
    IN  IF whole.next = j THEN NoParse
        ELSE IF whole.next <= Len(s) /\ s[whole.next] = "."
             THEN IF whole.next + 1 <= Len(s) /\ IsDigit(s[whole.next + 1])
                     /\ ~ (whole.next + 2 <= Len(s) /\ IsDigit(s[whole.next + 2]))
                  THEN Parsed(Real(signed(10 * whole.value
                                          + DigitValue(s[whole.next + 1]))),
                              whole.next + 2)
                  ELSE NoParse
             ELSE Parsed(Integer(signed(whole.value)), whole.next)

\* one literal at position i
ScanLiteral(s, i) ==
    IF i > Len(s) THEN NoParse
    ELSE IF s[i] = Quote THEN ScanText(s, i + 1, <<>>)
    ELSE IF Lower(s[i]) = "x" /\ i + 1 <= Len(s) /\ s[i + 1] = Quote
         THEN ScanBlob(s, i + 2, <<>>)
    ELSE IF i + 3 <= Len(s) /\ SubSeq(s, i, i + 3) = <<"N", "U", "L", "L">>
         THEN Parsed(Null, i + 4)
    ELSE ScanNumber(s, i)

\* the literals of a VALUES(...) list, separated by commas
RECURSIVE ScanValues(_, _, _)
ScanValues(s, i, acc) ==
    LET r == ScanLiteral(s, i)
    IN  IF ~ r.ok THEN NoParse
        ELSE IF r.next > Len(s) THEN Parsed(Append(acc, r.value), r.next)
        ELSE IF s[r.next] = "," THEN ScanValues(s, r.next + 1, Append(acc, r.value))
        ELSE NoParse

ParseValues(s) == ScanValues(s, 1, <<>>)

\* the catalog entry a CREATE statement makes: the statements are those of d
Created(d, sql) == d.catalog[CHOOSE k \in DOMAIN d.catalog : d.catalog[k].sql = sql]

EmptyDb == [ok |-> TRUE, catalog |-> <<>>, rows |-> <<>>]
Refused == [ok |-> FALSE, catalog |-> <<>>, rows |-> <<>>]

\* one statement executed against r.  Creating an AUTOINCREMENT table creates
\* sqlite_sequence when it is missing.  An INSERT needs its table, as many
\* values as the table has columns, and a VALUES list that parses.  (The
\* bookkeeping an INSERT into an AUTOINCREMENT table does is left out: the
\* DELETE that follows the table section clears it.)
Execute(r, line, d) ==
    IF ~ r.ok THEN r
    ELSE CASE line.stmt = "CREATE" ->
                LET e == Created(d, line.sql)
                    withSeq == e.autoinc /\ ~ HasTable(r, Str_sqlite_sequence)
                IN  IF HasTable(r, e.name) THEN Refused
                    ELSE [ok |-> TRUE,
                          catalog |-> r.catalog \o <<e>>
                                      \o (IF withSeq THEN <<SequenceEntry>> ELSE <<>>),
                          rows |-> r.rows @@ (e.name :> <<>>)
                                   @@ (IF withSeq THEN Str_sqlite_sequence :> <<>>
                                       ELSE <<>>)]
           [] line.stmt = "INSERT INTO" ->
                LET p == ParseValues(line.values)
                IN  IF /\ HasTable(r, line.table)
                       /\ p.ok
                       /\ Len(p.value) = Len(EntryOf(r, line.table).columns)
                    THEN [r EXCEPT !.rows[line.table] = Append(@, p.value)]
                    ELSE Refused
           [] line.stmt = "DELETE FROM sqlite_sequence;" ->
                IF HasTable(r, Str_sqlite_sequence)
                THEN [r EXCEPT !.rows[Str_sqlite_sequence] = <<>>]
                ELSE Refused
           [] line.stmt = "INSERT INTO sqlite_sequence" ->
                LET p == ParseValues(line.values)
                IN  IF HasTable(r, Str_sqlite_sequence) /\ p.ok /\ Len(p.value) = 2
                    THEN [r EXCEPT !.rows[Str_sqlite_sequence] = Append(@, p.value)]
                    ELSE Refused
           [] OTHER -> r

RECURSIVE ReplayFrom(_, _, _, _)
ReplayFrom(r, script, i, d) ==
    IF i > Len(script) THEN r
    ELSE ReplayFrom(Execute(r, script[i], d), script, i + 1, d)

\* the database a script leaves, replayed against an empty database
Replay(script, d) == ReplayFrom(EmptyDb, script, 1, d)

(***************************************************************************)
(* Vocabulary of the properties                                            *)
(***************************************************************************)
Finished == pc = "ok"

Positions(script, stmt) == {i \in DOMAIN script : script[i].stmt = stmt}

HasPrefix(str, prefix) ==
    Len(str) >= Len(prefix) /\ SubSeq(str, 1, Len(prefix)) = prefix

\* the reserved prefix of internal tables, sqlite_ with a literal underscore
ReservedPrefix == <<"s", "q", "l", "i", "t", "e", "_">>

\* the catalog rows of user-defined tables
UserTables(d) ==
    {k \in DOMAIN d.catalog :
        /\ d.catalog[k].type = "table"
        /\ d.catalog[k].sql # NullSql
        /\ ~ HasPrefix(d.catalog[k].name, ReservedPrefix)}

\* position in the catalog of the table a CREATE line creates
CatalogIndex(d, sql) == CHOOSE k \in DOMAIN d.catalog : d.catalog[k].sql = sql

\* the CREATE line that opens the table section position i lies in, 0 if none
SectionOf(script, i) ==
    LET S == {c \in Positions(script, "CREATE") : c < i}
    IN  IF S = {} THEN 0 ELSE CHOOSE c \in S : \A j \in S : j <= c

\* number of INSERT lines of table name
InsertCount(script, name) ==
    Cardinality({i \in Positions(script, "INSERT INTO") : script[i].table = name})

\* a text literal with each embedded quote doubled
RECURSIVE Doubled(_)
Doubled(t) ==
    IF t = <<>> THEN <<>>
    ELSE (IF Head(t) = Quote THEN <<Quote, Quote>> ELSE <<Head(t)>>) \o Doubled(Tail(t))

EscapedText(t) == <<Quote>> \o Doubled(t) \o <<Quote>>

\* the blob literal X'<hex>', two hex digits per byte
RECURSIVE Hex(_)
Hex(b) ==
    IF b = <<>> THEN <<>>
    ELSE <<HexDigits[(Head(b) \div 16) + 1], HexDigits[(Head(b) % 16) + 1]>>
         \o Hex(Tail(b))

HexLiteral(b) == <<"X", Quote>> \o Hex(b) \o <<Quote>>

\* the script of one database state d: what dump writes when every read sees
\* d and no step fails
RowLine(name, r) == InsertLine(name, Join([k \in DOMAIN r |-> Literal(r[k])], <<",">>))

TableLines(d, e) ==
    <<CreateLine(e.sql)>> \o [i \in DOMAIN d.rows[e.name] |-> RowLine(e.name, d.rows[e.name][i])]

RECURSIVE TableSection(_, _)
TableSection(d, k) ==
    IF k > Len(d.catalog) THEN <<>>
    ELSE (IF Where(d.catalog[k]) THEN TableLines(d, d.catalog[k]) ELSE <<>>)
         \o TableSection(d, k + 1)

RECURSIVE SequenceSection(_, _)
SequenceSection(rs, k) ==
    IF k > Len(rs) THEN <<>>
    ELSE (IF StringFromSql(rs[k][1]).ok /\ I64FromSql(rs[k][2]).ok
          THEN <<SequenceLine(SequenceValues(rs[k][1].t, rs[k][2].i))>>
          ELSE <<>>)
         \o SequenceSection(rs, k + 1)

DumpOf(d) ==
    <<PragmaLine, BeginLine>> \o TableSection(d, 1) \o <<DeleteLine>>
    \o (IF HasTable(d, Str_sqlite_sequence)
        THEN SequenceSection(d.rows[Str_sqlite_sequence], 1) ELSE <<>>)
    \o <<CommitLine>>

(***************************************************************************)
(* Properties                                                              *)
(***************************************************************************)

\* C1: when dump returns Ok, the lines written are PRAGMA foreign_keys=OFF,
\* BEGIN TRANSACTION, then the table sections in catalog order (each a CREATE
\* followed by the INSERT lines of that table only), then DELETE FROM
\* sqlite_sequence, then the INSERT INTO sqlite_sequence lines, then COMMIT
\* as the last line.
ScriptOrdered ==
    Finished =>
        LET n == Len(out)
        IN  /\ n >= 4
            /\ out[1] = PragmaLine
            /\ out[2] = BeginLine
            /\ out[n] = CommitLine
            /\ \E del \in 3..(n - 1) :
                 /\ out[del] = DeleteLine
                 /\ \A i \in 3..(del - 1) : out[i].stmt \in {"CREATE", "INSERT INTO"}
                 /\ \A i \in (del + 1)..(n - 1) : out[i].stmt = "INSERT INTO sqlite_sequence"
            /\ \A i \in Positions(out, "INSERT INTO") :
                 /\ SectionOf(out, i) # 0
                 /\ Created(db, out[SectionOf(out, i)].sql).name = out[i].table
            /\ \A i, j \in Positions(out, "CREATE") :
                 i < j => CatalogIndex(db, out[i].sql) < CatalogIndex(db, out[j].sql)

\* C1 witness: an Ok dump with two table sections, the first with INSERT
\* lines, and a sequence line
ScriptOrderedWitness ==
    /\ Finished
    /\ \E i, j \in Positions(out, "CREATE") :
         i < j /\ \E k \in Positions(out, "INSERT INTO") : i < k /\ k < j
    /\ Positions(out, "INSERT INTO sqlite_sequence") # {}

\* C2: round trip: when no step failed and nothing was written meanwhile, the
\* script of an Ok dump replays to a database with the same user tables, the
\* same rows per table and the same sqlite_sequence records.
RoundTrip ==
    (Finished /\ failed = 0 /\ writes = 0) =>
        LET r == Replay(out, db)
        IN  /\ r.ok
            /\ {r.catalog[k].name : k \in UserTables(r)}
                 = {db.catalog[k].name : k \in UserTables(db)}
            /\ \A k \in UserTables(db) :
                 /\ HasTable(r, db.catalog[k].name)
                 /\ r.rows[db.catalog[k].name] = db.rows[db.catalog[k].name]
            /\ HasTable(r, Str_sqlite_sequence)
            /\ r.rows[Str_sqlite_sequence] = db.rows[Str_sqlite_sequence]

\* C3: a row whose read fails is not silently dropped: an Ok dump has an
\* INSERT line for every stored row of every table it dumped.
NoRowDropped ==
    Finished =>
        \A c \in Positions(out, "CREATE") :
            LET name == Created(db, out[c].sql).name
            IN  \E d \in hist : InsertCount(out, name) = Len(d.rows[name])

\* C4: snapshot consistency: when no step failed, the script of an Ok dump is
\* the script of one state the database was in.
SnapshotConsistent ==
    (Finished /\ failed = 0) => \E d \in hist : out = DumpOf(d)

\* C5: without a sqlite_sequence table the sequence step is not an error:
\* with no other failure dump does not return an error, and an Ok dump has no
\* sequence line and ends with COMMIT.
MissingSequenceIsNoError ==
    (~ HasTable(db, Str_sqlite_sequence) /\ faults = 0) =>
        /\ pc # "err"
        /\ Finished => /\ Positions(out, "INSERT INTO sqlite_sequence") = {}
                       /\ out[Len(out)] = CommitLine

\* C6: any failed step makes dump return an error without writing COMMIT: no
\* failure is skipped so that the dump continues.
FailureAborts ==
    failed > 0 => pc = "err" /\ Positions(out, "COMMIT;") = {}

\* C7: every Text value is written as a quoted literal with each embedded
\* quote doubled, which parses back to the same string.
TextEscaped ==
    \A i \in DOMAIN last.got :
        last.got[i].tag = "Text" =>
            LET t == FromUtf8Lossy(last.got[i].t)
            IN  /\ last.lits[i] = EscapedText(t)
                /\ ParseValues(last.lits[i]) = Parsed(<<Text(t)>>, Len(last.lits[i]) + 1)

\* C8: every Blob value is written as the literal X'<hex>'; a row with a Blob
\* never makes dump crash.
BlobHex ==
    /\ pc # "panicked"
    /\ \A i \in DOMAIN last.got :
         last.got[i].tag = "Blob" => last.lits[i] = HexLiteral(last.got[i].b)

\* C9: when no step failed, the CREATE lines of an Ok dump are those of the
\* user-defined tables (kind table, creation SQL not null, name not beginning
\* with sqlite_), each exactly once, and of no other catalog entry.
TableSetExact ==
    (Finished /\ failed = 0) =>
        /\ \A k \in UserTables(db) :
             Cardinality({c \in Positions(out, "CREATE") :
                            out[c].sql = db.catalog[k].sql}) = 1
        /\ \A c \in Positions(out, "CREATE") :
             CatalogIndex(db, out[c].sql) \in UserTables(db)

\* C10: every INSERT line written for a table has as many literals as the
\* table has columns.
InsertArity ==
    last.written => Len(last.lits) = Len(EntryOf(db, last.table).columns)

====
